---- MODULE Spec2Model ----
(***************************************************************************)
(* Minerva: the frame lifecycle of mnv::VulkanEngine.                      *)
(*                                                                         *)
(* Three timelines are modelled: the CPU thread (init, run, draw,          *)
(* cleanup), the GPU queue (executes submissions, signals semaphores and   *)
(* fences) and the presentation engine (hands out images, signals the      *)
(* acquire semaphore, presents and releases images).                       *)
(***************************************************************************)
EXTENDS Integers, Sequences, FiniteSets, TLC

\* ------------------------------------------------------------------ bounds
MaxImages == 3      \* most images the swapchain builder may hand back
MaxFrames == 6      \* draws modelled before the frame counter is capped
MaxWait == 2        \* clock periods a blocked call is followed for
MaxCleanups == 2    \* calls of cleanup() modelled

\* ------------------------------------------------------- program constants
NumFrames == 2                      \* _frames.resize(2)
FENCE_TIMEOUT_NS == 1000000000      \* helpers::FENCE_TIMEOUT_NS
SDL_QUIT == 256                     \* SDL_events.h, SDL_EventType
SDL_WINDOWEVENT == 512              \* SDL_events.h, SDL_EventType
SDL_WINDOWEVENT_MINIMIZED == 7      \* SDL_video.h, SDL_WindowEventID
SDL_WINDOWEVENT_RESTORED == 9       \* SDL_video.h, SDL_WindowEventID

\* One period of the model clock, in nanoseconds.
PeriodNs == FENCE_TIMEOUT_NS

NoImage == 0 - 1
NoSlot == 0 - 1

Slots == 0 .. (NumFrames - 1)

VARIABLES
    pc,                 \* position of the CPU thread
    _isInitialized,     \* VulkanEngine::_isInitialized
    _frameNumber,       \* VulkanEngine::_frameNumber
    _stopRendering,     \* VulkanEngine::_stopRendering
    loadedEngine,       \* TRUE when the global loadedEngine is not nullptr
    bQuit,              \* local of run()
    events,             \* the SDL event queue
    imageCount,         \* _swapchainImages.size()
    nextSwapchainImageIndex, \* local of draw()
    commandBuffer,      \* per slot: state and recorded commands
    renderFence,        \* per slot: fence signaled?
    swapchainSemaphore, \* per slot: semaphore signaled?
    renderSemaphore,    \* per image: semaphore signaled?
    subs,               \* queue submissions the GPU has not completed
    gpuHung,            \* the GPU has stopped making progress
    imgState,           \* per image: "free", "acquired", "queued", "presenting"
    imgAvail,           \* per image: the presentation engine has released it to the application
    acqPending,         \* per slot: image whose availability signal is outstanding
    presentWait,        \* per image: semaphore index the queued present waits on
    waited,             \* clock periods the CPU has been blocked in the current call
    destroyLog,         \* destroy calls issued so far, in order
    cleanups,           \* calls of cleanup() so far
    useAfterDestroy,    \* a destroyed handle has been passed to an API call
    \* history of the current run, read by the properties only
    iter,               \* draw() invocations so far
    used,               \* slot index each step of the latest draw() used
    slotLog,            \* slot of the fence wait of every draw(), in order
    apiCalls,           \* calls issued by draw() so far
    pausedTick,         \* a paused loop tick has run since the latest draw()
    imgRendered,        \* per image: rendering submitted for it since its acquire has completed
    imgLayout,          \* per image: the layout its defined contents are in
    transitionArgs      \* arguments of the transitionImage call under test

cpuVars == <<pc, _isInitialized, _frameNumber, _stopRendering, loadedEngine, bQuit,
             nextSwapchainImageIndex, commandBuffer, waited>>
gpuVars == <<renderFence, swapchainSemaphore, renderSemaphore, subs, gpuHung>>
peVars == <<imgState, imgAvail, acqPending, presentWait, imageCount>>
downVars == <<destroyLog, cleanups, useAfterDestroy>>
histVars == <<iter, used, slotLog, apiCalls, pausedTick, imgRendered>>
vars == <<cpuVars, gpuVars, peVars, downVars, histVars, events, imgLayout, transitionArgs>>

Images == 0 .. (imageCount - 1)

\* ------------------------------------------------------------ pure helpers

\* vk_engine.h:67  _frames[_frameNumber % _frames.size()]
getCurrentFrame_wrong(frameNumber) == (frameNumber % (NumFrames + 1)) % NumFrames
getCurrentFrame(frameNumber) == frameNumber % NumFrames

\* vk_engine.h:68  _swapchainImageData[index % _swapchainImageData.size()]
getSwapchainImageData(index, count) == index % count

\* VK_CHECK: a non-zero VkResult aborts the process; otherwise execution continues.
VK_CHECK(result, next) == IF result = "VK_SUCCESS" THEN next ELSE "fatal"

\* A timeout in nanoseconds. UINT64_MAX ns (about 584 years) is beyond every
\* bound of the model clock and is kept symbolic.
UINT64_MAX == [unbounded |-> TRUE, periods |-> 0]
Timeout(ns) == [unbounded |-> FALSE, periods |-> ns \div PeriodNs]
Expired(timeout, elapsed) == ~timeout.unbounded /\ elapsed >= timeout.periods

\* Variant: the wait returns success whatever the state of the fence.
vkWaitForFences_unsynced(signaled, timeout, elapsed) == "VK_SUCCESS"

\* vkWaitForFences(device, 1, &fence, VK_TRUE, timeout)
vkWaitForFences(signaled, timeout, elapsed) ==
    IF signaled THEN "VK_SUCCESS"
    ELSE IF Expired(timeout, elapsed) THEN "VK_TIMEOUT"
    ELSE "BLOCKED"

\* Variant: the barrier's source scope starts at the top of the pipe.
transitionImage_topOfPipe(image, currentLayout, newLayout) ==
    [ op |-> "barrier",
      image |-> image,
      srcStageMask |-> "TOP_OF_PIPE",
      dstStageMask |-> "ALL_COMMANDS",
      oldLayout |-> currentLayout,
      newLayout |-> newLayout,
      aspectMask |-> IF newLayout # "DEPTH_ATTACHMENT_OPTIMAL" THEN "COLOR" ELSE "DEPTH" ]

\* Variant: the aspect is chosen from the layout the image is in.
transitionImage_aspectFromCurrent(image, currentLayout, newLayout) ==
    [ op |-> "barrier",
      image |-> image,
      srcStageMask |-> "ALL_COMMANDS",
      dstStageMask |-> "ALL_COMMANDS",
      oldLayout |-> currentLayout,
      newLayout |-> newLayout,
      aspectMask |-> IF currentLayout # "DEPTH_ATTACHMENT_OPTIMAL" THEN "COLOR" ELSE "DEPTH" ]

\* vk_images.cpp: the barrier transitionImage records.
transitionImage(image, currentLayout, newLayout) ==
    [ op |-> "barrier",
      image |-> image,
      srcStageMask |-> "ALL_COMMANDS",
      dstStageMask |-> "ALL_COMMANDS",
      oldLayout |-> currentLayout,
      newLayout |-> newLayout,
      aspectMask |-> IF newLayout # "DEPTH_ATTACHMENT_OPTIMAL" THEN "COLOR" ELSE "DEPTH" ]

vkCmdClearColorImage(image, layout) ==
    [ op |-> "clear",
      image |-> image,
      srcStageMask |-> "NONE",
      dstStageMask |-> "NONE",
      oldLayout |-> layout,
      newLayout |-> layout,
      aspectMask |-> "COLOR" ]

EmptyBuffer == [state |-> "initial", usage |-> "NONE", cmds |-> <<>>]
NoUse == [wait |-> NoSlot, reset |-> NoSlot, acquire |-> NoSlot, cmd |-> NoSlot,
          submitWait |-> NoSlot, submitFence |-> NoSlot, frame |-> 0 - 1,
          afterPause |-> FALSE, result |-> "VK_SUCCESS", afterQuit |-> FALSE]
\* A one-time-submit buffer is invalid once its execution has completed.
InvalidBuffer == [state |-> "invalid", usage |-> "NONE", cmds |-> <<>>]
PerImage(count, v) == [k \in 0 .. (count - 1) |-> v]
NoArgs == [image |-> NoImage, currentLayout |-> "NONE", newLayout |-> "NONE"]

\* The layouts the images are in once the GPU has executed the commands: a
\* barrier performs its transition, a clear leaves the layout alone.
RECURSIVE Execute(_, _)
Execute(cmds, layouts) ==
    IF cmds = <<>> THEN layouts
    ELSE Execute(Tail(cmds),
                 IF Head(cmds).op = "barrier"
                 THEN [layouts EXCEPT ![Head(cmds).image] = Head(cmds).newLayout]
                 ELSE layouts)

\* ------------------------------------------------------------------- Init
InitEngine ==
    /\ _isInitialized = FALSE
    /\ _frameNumber = 0
    /\ _stopRendering = FALSE
    /\ loadedEngine = FALSE
    /\ bQuit = FALSE
    /\ events = <<>>
    /\ imageCount = 0
    /\ nextSwapchainImageIndex = NoImage
    /\ commandBuffer = [s \in Slots |-> EmptyBuffer]
    /\ renderFence = [s \in Slots |-> FALSE]
    /\ swapchainSemaphore = [s \in Slots |-> FALSE]
    /\ renderSemaphore = PerImage(0, FALSE)
    /\ subs = {}
    /\ gpuHung = FALSE
    /\ imgState = PerImage(0, "free")
    /\ imgAvail = PerImage(0, FALSE)
    /\ acqPending = [s \in Slots |-> NoImage]
    /\ presentWait = PerImage(0, NoImage)
    /\ waited = 0
    /\ destroyLog = <<>>
    /\ cleanups = 0
    /\ useAfterDestroy = FALSE
    /\ iter = 0
    /\ used = NoUse
    /\ slotLog = <<>>
    /\ apiCalls = 0
    /\ pausedTick = FALSE
    /\ imgRendered = PerImage(0, FALSE)
    /\ imgLayout = PerImage(0, "UNDEFINED")

Init ==
    /\ pc = "constructed"
    /\ transitionArgs = NoArgs
    /\ InitEngine

\* ----------------------------------------------------------------- inputs
ApiResults == {"VK_SUCCESS", "VK_ERROR_DEVICE_LOST"}

\* SDL_Event as run() reads it: the type, and for SDL_WINDOWEVENT the window
\* event id. SDL reports minimize and restore as type SDL_WINDOWEVENT; an event
\* whose type field is 7 or 9 reaches the queue only through SDL_PushEvent.
EventSet ==
    {[type |-> t, windowEvent |-> 0] :
        t \in {SDL_QUIT, SDL_WINDOWEVENT_MINIMIZED, SDL_WINDOWEVENT_RESTORED}}
    \cup {[type |-> SDL_WINDOWEVENT, windowEvent |-> w] :
        w \in {SDL_WINDOWEVENT_MINIMIZED, SDL_WINDOWEVENT_RESTORED}}

Alive == pc \notin {"fatal", "crashed"}
Slot == getCurrentFrame(_frameNumber)
\* Variant: the loop condition does not look at bQuit.
LoopTop_ignoresQuit == "poll"

\* while (!bQuit): where control goes when a tick ends.
LoopTop == IF bQuit THEN "returned" ELSE "poll"

\* ---------------------------------------------------------------- init()
\* Variant: the fences are created unsignaled.
fenceCreateInfo_unsignaled == [signaled |-> FALSE]

\* initSynchronizationStructures: fences are created with
\* VK_FENCE_CREATE_SIGNALED_BIT, semaphores with no flags.
fenceCreateInfo == [signaled |-> TRUE]
semaphoreCreateInfo == [signaled |-> FALSE]

CallInit ==
    /\ pc = "constructed"
    /\ ~loadedEngine                       \* assert(loadedEngine == nullptr)
    /\ \E r \in ApiResults, m \in 1 .. MaxImages :
        /\ pc' = VK_CHECK(r, "idle")
        /\ loadedEngine' = TRUE
        /\ IF r = "VK_SUCCESS"
           THEN /\ imageCount' = m
                /\ commandBuffer' = [s \in Slots |-> EmptyBuffer]
                /\ renderFence' = [s \in Slots |-> fenceCreateInfo.signaled]
                /\ swapchainSemaphore' = [s \in Slots |-> semaphoreCreateInfo.signaled]
                /\ renderSemaphore' = PerImage(m, semaphoreCreateInfo.signaled)
                /\ imgState' = PerImage(m, "free")
                /\ imgAvail' = PerImage(m, FALSE)
                /\ presentWait' = PerImage(m, NoImage)
                /\ imgRendered' = PerImage(m, FALSE)
                /\ imgLayout' = PerImage(m, "UNDEFINED")
                /\ _isInitialized' = TRUE
           ELSE UNCHANGED <<imageCount, commandBuffer, renderFence, swapchainSemaphore,
                            renderSemaphore, imgState, imgAvail, presentWait, imgRendered,
                            imgLayout, _isInitialized>>
    /\ UNCHANGED <<_frameNumber, _stopRendering, bQuit, events, nextSwapchainImageIndex,
                   subs, gpuHung, acqPending, waited, downVars, iter, used, slotLog,
                   apiCalls, pausedTick>>
    /\ UNCHANGED transitionArgs

\* ----------------------------------------------------------------- run()
CallRun ==
    /\ pc = "idle"
    /\ _isInitialized
    /\ pc' = "poll"
    /\ bQuit' = FALSE
    /\ UNCHANGED <<_isInitialized, _frameNumber, _stopRendering, loadedEngine,
                   nextSwapchainImageIndex, commandBuffer, waited, gpuVars, peVars,
                   downVars, histVars, events>>
    /\ UNCHANGED <<imgLayout, transitionArgs>>

\* The window system queues an event. Events are read at the poll only and
\* one at a time, so every order of handled events arises from arrivals at the
\* poll into an empty queue.
PushEvent ==
    /\ pc = "poll"
    /\ events = <<>>
    /\ \E e \in EventSet : events' = Append(events, e)
    /\ UNCHANGED <<cpuVars, gpuVars, peVars, downVars, histVars>>
    /\ UNCHANGED <<imgLayout, transitionArgs>>

\* The switch on event.type.
HandleQuit(type) == type = SDL_QUIT
HandleMinimized(e) == e.type = SDL_WINDOWEVENT_MINIMIZED
HandleRestored(e) == e.type = SDL_WINDOWEVENT_RESTORED

\* One pass of the inner while: SDL_PollEvent returned an event.
PollEvent ==
    /\ pc = "poll"
    /\ events # <<>>
    /\ LET e == Head(events) IN
        /\ bQuit' = IF HandleQuit(e.type) THEN TRUE ELSE bQuit
        /\ _stopRendering' = IF HandleMinimized(e) THEN TRUE
                             ELSE IF HandleRestored(e) THEN FALSE
                             ELSE _stopRendering
    /\ events' = Tail(events)
    /\ UNCHANGED <<pc, _isInitialized, _frameNumber, loadedEngine, nextSwapchainImageIndex,
                   commandBuffer, waited, gpuVars, peVars, downVars, histVars>>
    /\ UNCHANGED <<imgLayout, transitionArgs>>

\* Variant: the paused tick falls through to draw().
RunPausedTickDraws ==
    /\ pc = "poll"
    /\ events = <<>>
    /\ _stopRendering
    /\ iter < MaxFrames
    /\ pc' = "draw_wait"
    /\ iter' = iter + 1
    /\ used' = [NoUse EXCEPT !.frame = _frameNumber, !.afterPause = pausedTick,
                             !.afterQuit = bQuit]
    /\ pausedTick' = TRUE
    /\ UNCHANGED <<_isInitialized, _frameNumber, _stopRendering, loadedEngine, bQuit,
                   nextSwapchainImageIndex, commandBuffer, waited, gpuVars, peVars,
                   downVars, slotLog, apiCalls, imgRendered, events>>
    /\ UNCHANGED <<imgLayout, transitionArgs>>

\* The queue is empty and the engine is paused: sleep, continue.
RunPausedTick ==
    /\ pc = "poll"
    /\ events = <<>>
    /\ _stopRendering
    /\ pc' = LoopTop
    /\ pausedTick' = TRUE
    /\ UNCHANGED <<_isInitialized, _frameNumber, _stopRendering, loadedEngine, bQuit,
                   nextSwapchainImageIndex, commandBuffer, waited, gpuVars, peVars,
                   downVars, iter, used, slotLog, apiCalls, imgRendered, events>>
    /\ UNCHANGED <<imgLayout, transitionArgs>>

\* The queue is empty and the engine is not paused: draw() is entered.
RunDraw ==
    /\ pc = "poll"
    /\ events = <<>>
    /\ ~_stopRendering
    /\ iter < MaxFrames
    /\ pc' = "draw_wait"
    /\ iter' = iter + 1
    /\ used' = [NoUse EXCEPT !.frame = _frameNumber, !.afterPause = pausedTick,
                             !.afterQuit = bQuit]
    /\ pausedTick' = FALSE
    /\ waited' = 0
    /\ UNCHANGED <<_isInitialized, _frameNumber, _stopRendering, loadedEngine, bQuit,
                   nextSwapchainImageIndex, commandBuffer, gpuVars, peVars, downVars,
                   slotLog, apiCalls, imgRendered, events>>
    /\ UNCHANGED <<imgLayout, transitionArgs>>

\* ---------------------------------------------------------------- draw()
drawRest == <<_isInitialized, _stopRendering, loadedEngine, bQuit, downVars, slotLog,
              pausedTick, events, gpuHung, imageCount>>

\* vkWaitForFences(..., &getCurrentFrame().renderFence, VK_TRUE, UINT64_MAX)
DrawWait ==
    /\ pc = "draw_wait"
    /\ \E r \in {vkWaitForFences(renderFence[Slot], UINT64_MAX, waited),
                 "VK_ERROR_DEVICE_LOST"} :
        /\ r # "BLOCKED"
        /\ pc' = VK_CHECK(r, "draw_reset")
        /\ used' = [used EXCEPT !.wait = Slot, !.result = r]
    /\ waited' = 0
    /\ slotLog' = Append(slotLog, Slot)
    /\ apiCalls' = apiCalls + 1
    /\ UNCHANGED <<_isInitialized, _stopRendering, loadedEngine, bQuit, downVars,
                   pausedTick, events, gpuHung, imageCount, _frameNumber,
                   nextSwapchainImageIndex, commandBuffer, renderFence, swapchainSemaphore,
                   renderSemaphore, subs, imgState, imgAvail, acqPending, presentWait,
                   iter, imgRendered>>
    /\ UNCHANGED <<imgLayout, transitionArgs>>

\* Variant: the fence is left as the wait found it.
DrawResetFence_skipped ==
    /\ pc = "draw_reset"
    /\ \E r \in ApiResults :
        /\ pc' = VK_CHECK(r, "draw_acquire")
        /\ used' = [used EXCEPT !.reset = Slot, !.result = r]
    /\ apiCalls' = apiCalls + 1
    /\ UNCHANGED <<drawRest, _frameNumber, nextSwapchainImageIndex, commandBuffer, waited,
                   renderFence, swapchainSemaphore, renderSemaphore, subs, imgState,
                   imgAvail, acqPending, presentWait, iter, imgRendered>>
    /\ UNCHANGED <<imgLayout, transitionArgs>>

\* vkResetFences(..., &getCurrentFrame().renderFence)
DrawResetFence ==
    /\ pc = "draw_reset"
    /\ \E r \in ApiResults :
        /\ pc' = VK_CHECK(r, "draw_acquire")
        /\ renderFence' = IF r = "VK_SUCCESS"
                          THEN [renderFence EXCEPT ![Slot] = FALSE]
                          ELSE renderFence
        /\ used' = [used EXCEPT !.reset = Slot, !.result = r]
    /\ apiCalls' = apiCalls + 1
    /\ UNCHANGED <<drawRest, _frameNumber, nextSwapchainImageIndex, commandBuffer, waited,
                   swapchainSemaphore, renderSemaphore, subs, imgState, imgAvail,
                   acqPending, presentWait, iter, imgRendered>>
    /\ UNCHANGED <<imgLayout, transitionArgs>>

\* vkAcquireNextImageKHR(..., FENCE_TIMEOUT_NS, getCurrentFrame().swapchainSemaphore,
\* nullptr, &nextSwapchainImageIndex): any image the presentation engine holds
\* free may come back; with none free the call blocks up to the timeout.
DrawAcquire ==
    /\ pc = "draw_acquire"
    /\ \/ \E k \in Images :
            /\ imgState[k] = "free"
            /\ pc' = VK_CHECK("VK_SUCCESS", "draw_resetcmd")
            /\ used' = [used EXCEPT !.acquire = Slot]
            /\ nextSwapchainImageIndex' = k
            /\ imgState' = [imgState EXCEPT ![k] = "acquired"]
            /\ imgAvail' = [imgAvail EXCEPT ![k] = FALSE]
            /\ imgRendered' = [imgRendered EXCEPT ![k] = FALSE]
            /\ acqPending' = [acqPending EXCEPT ![Slot] = k]
       \/ /\ \E r \in {"VK_ERROR_DEVICE_LOST"} \cup
                    (IF (\A k \in Images : imgState[k] # "free")
                        /\ Expired(Timeout(FENCE_TIMEOUT_NS), waited)
                     THEN {"VK_TIMEOUT"} ELSE {}) :
                /\ pc' = VK_CHECK(r, "draw_resetcmd")
                /\ used' = [used EXCEPT !.acquire = Slot, !.result = r]
          /\ UNCHANGED <<nextSwapchainImageIndex, imgState, imgAvail, imgRendered,
                         acqPending>>
    /\ waited' = 0
    /\ apiCalls' = apiCalls + 1
    /\ UNCHANGED <<drawRest, _frameNumber, commandBuffer, renderFence, swapchainSemaphore,
                   renderSemaphore, subs, presentWait, iter>>
    /\ UNCHANGED <<imgLayout, transitionArgs>>

\* vkResetCommandBuffer(getCurrentFrame().commandBuffer, 0)
DrawResetCommandBuffer ==
    /\ pc = "draw_resetcmd"
    /\ \E r \in ApiResults :
        /\ pc' = VK_CHECK(r, "draw_begin")
        /\ commandBuffer' = IF r = "VK_SUCCESS"
                            THEN [commandBuffer EXCEPT ![Slot] = EmptyBuffer]
                            ELSE commandBuffer
        /\ used' = [used EXCEPT !.cmd = Slot, !.result = r]
    /\ apiCalls' = apiCalls + 1
    /\ UNCHANGED <<drawRest, _frameNumber, nextSwapchainImageIndex, waited, renderFence,
                   swapchainSemaphore, renderSemaphore, subs, imgState, imgAvail,
                   acqPending, presentWait, iter, imgRendered>>
    /\ UNCHANGED <<imgLayout, transitionArgs>>

\* Variant: the transition to the presentable layout is left out.
RecordedCommands_noPresentTransition(image) ==
    << transitionImage(image, "UNDEFINED", "GENERAL"),
       vkCmdClearColorImage(image, "GENERAL") >>

\* The commands draw() records between begin and end.
RecordedCommands(image) ==
    << transitionImage(image, "UNDEFINED", "GENERAL"),
       vkCmdClearColorImage(image, "GENERAL"),
       transitionImage(image, "GENERAL", "PRESENT_SRC_KHR") >>

\* vkBeginCommandBuffer with ONE_TIME_SUBMIT, then the three recorded commands.
DrawBeginAndRecord ==
    /\ pc = "draw_begin"
    /\ \E r \in ApiResults :
        /\ pc' = VK_CHECK(r, "draw_end")
        /\ commandBuffer' =
              IF r = "VK_SUCCESS"
              THEN [commandBuffer EXCEPT ![Slot] =
                       [state |-> "recording", usage |-> "ONE_TIME_SUBMIT",
                        cmds |-> RecordedCommands(nextSwapchainImageIndex)]]
              ELSE commandBuffer
        /\ used' = [used EXCEPT !.result = r]
    /\ apiCalls' = apiCalls + 1
    /\ UNCHANGED <<drawRest, _frameNumber, nextSwapchainImageIndex, waited, renderFence,
                   swapchainSemaphore, renderSemaphore, subs, imgState, imgAvail,
                   acqPending, presentWait, iter, imgRendered>>
    /\ UNCHANGED <<imgLayout, transitionArgs>>

\* vkEndCommandBuffer
DrawEndCommandBuffer ==
    /\ pc = "draw_end"
    /\ \E r \in ApiResults :
        /\ pc' = VK_CHECK(r, "draw_submit")
        /\ commandBuffer' = IF r = "VK_SUCCESS"
                            THEN [commandBuffer EXCEPT ![Slot].state = "executable"]
                            ELSE commandBuffer
        /\ used' = [used EXCEPT !.result = r]
    /\ apiCalls' = apiCalls + 1
    /\ UNCHANGED <<drawRest, _frameNumber, nextSwapchainImageIndex, waited, renderFence,
                   swapchainSemaphore, renderSemaphore, subs, imgState, imgAvail,
                   acqPending, presentWait, iter, imgRendered>>
    /\ UNCHANGED <<imgLayout, transitionArgs>>

\* Variant: the batch signals the semaphore at the frame-slot index.
SubmitInfoBySlot(frameNumber, imageIndex, count, buffer) ==
    [ frame |-> frameNumber,
      slot |-> getCurrentFrame(frameNumber),
      cmds |-> buffer.cmds,
      waitStage |-> "COLOR_ATTACHMENT_OUTPUT",
      wait |-> getCurrentFrame(frameNumber),
      signal |-> getCurrentFrame(frameNumber) % count,
      fence |-> getCurrentFrame(frameNumber),
      running |-> FALSE,
      semWaited |-> FALSE ]

\* The batch vkQueueSubmit2 is given (lines 119-128).
SubmitInfo(frameNumber, imageIndex, count, buffer) ==
    [ frame |-> frameNumber,
      slot |-> getCurrentFrame(frameNumber),
      cmds |-> buffer.cmds,
      waitStage |-> "COLOR_ATTACHMENT_OUTPUT",
      wait |-> getCurrentFrame(frameNumber),
      signal |-> getSwapchainImageData(imageIndex, count),
      fence |-> getCurrentFrame(frameNumber),
      running |-> FALSE,
      semWaited |-> FALSE ]

\* Variant: the result of the submit is not checked.
DrawSubmit_unchecked ==
    /\ pc = "draw_submit"
    /\ \E r \in ApiResults :
        /\ pc' = "draw_present"
        /\ IF r = "VK_SUCCESS"
           THEN /\ subs' = subs \cup {SubmitInfo(_frameNumber, nextSwapchainImageIndex,
                                                 imageCount, commandBuffer[Slot])}
                /\ commandBuffer' = [commandBuffer EXCEPT ![Slot].state = "pending"]
           ELSE UNCHANGED <<subs, commandBuffer>>
        /\ used' = [used EXCEPT !.submitWait = Slot, !.submitFence = Slot, !.result = r]
    /\ apiCalls' = apiCalls + 1
    /\ UNCHANGED <<drawRest, _frameNumber, nextSwapchainImageIndex, waited, renderFence,
                   swapchainSemaphore, renderSemaphore, imgState, imgAvail, acqPending,
                   presentWait, iter, imgRendered>>
    /\ UNCHANGED <<imgLayout, transitionArgs>>

\* vkQueueSubmit2(_graphicsQueue, 1, &submitInfo, getCurrentFrame().renderFence)
DrawSubmit ==
    /\ pc = "draw_submit"
    /\ \E r \in ApiResults :
        /\ pc' = VK_CHECK(r, "draw_present")
        /\ IF r = "VK_SUCCESS"
           THEN /\ subs' = subs \cup {SubmitInfo(_frameNumber, nextSwapchainImageIndex,
                                                 imageCount, commandBuffer[Slot])}
                /\ commandBuffer' = [commandBuffer EXCEPT ![Slot].state = "pending"]
           ELSE UNCHANGED <<subs, commandBuffer>>
        /\ used' = [used EXCEPT !.submitWait = Slot, !.submitFence = Slot, !.result = r]
    /\ apiCalls' = apiCalls + 1
    /\ UNCHANGED <<drawRest, _frameNumber, nextSwapchainImageIndex, waited, renderFence,
                   swapchainSemaphore, renderSemaphore, imgState, imgAvail, acqPending,
                   presentWait, iter, imgRendered>>
    /\ UNCHANGED <<imgLayout, transitionArgs>>

\* Variant: the present waits on the semaphore at the frame-slot index.
PresentWaitSemaphoreBySlot(frameNumber, imageIndex, count) ==
    getCurrentFrame(frameNumber) % count

\* presentInfo.pWaitSemaphores (line 137): index of the registry entry waited on.
PresentWaitSemaphore(frameNumber, imageIndex, count) ==
    getSwapchainImageData(imageIndex, count)

\* vkQueuePresentKHR with pWaitSemaphores =
\* &getSwapchainImageData(nextSwapchainImageIndex).renderSemaphore, then ++_frameNumber.
DrawPresent ==
    /\ pc = "draw_present"
    /\ \E r \in ApiResults :
        /\ pc' = VK_CHECK(r, LoopTop)
        /\ IF r = "VK_SUCCESS"
           THEN /\ imgState' = [imgState EXCEPT ![nextSwapchainImageIndex] = "queued"]
                /\ presentWait' = [presentWait EXCEPT ![nextSwapchainImageIndex] =
                                      PresentWaitSemaphore(_frameNumber, nextSwapchainImageIndex,
                                                           imageCount)]
                /\ _frameNumber' = _frameNumber + 1
           ELSE UNCHANGED <<imgState, presentWait, _frameNumber>>
        /\ used' = [used EXCEPT !.result = r]
    /\ apiCalls' = apiCalls + 1
    /\ nextSwapchainImageIndex' = NoImage
    /\ UNCHANGED <<drawRest, commandBuffer, waited, renderFence,
                   swapchainSemaphore, renderSemaphore, subs, imgAvail, acqPending, iter,
                   imgRendered>>
    /\ UNCHANGED <<imgLayout, transitionArgs>>

\* ------------------------------------------------------------ the GPU queue
\* The semaphore wait of a batch covers the stages in its waitStage mask. The
\* batch's first command is ordered after the wait when its source stage mask
\* includes that stage.
WaitOrdersCommands(sub) ==
    /\ sub.cmds # <<>>
    /\ sub.cmds[1].op = "barrier"
    /\ sub.cmds[1].srcStageMask \in {"ALL_COMMANDS", sub.waitStage}

TargetImage(sub) == sub.cmds[1].image

\* The GPU starts executing a batch: its wait semaphore is signaled and is
\* consumed, or its commands are not ordered after the wait.
GpuBegin(sub) ==
    /\ Alive /\ ~gpuHung
    /\ sub \in subs /\ ~sub.running
    /\ \/ /\ swapchainSemaphore[sub.wait]
          /\ swapchainSemaphore' = [swapchainSemaphore EXCEPT ![sub.wait] = FALSE]
          /\ subs' = (subs \ {sub}) \cup {[sub EXCEPT !.running = TRUE, !.semWaited = TRUE]}
       \/ /\ ~swapchainSemaphore[sub.wait]
          /\ ~WaitOrdersCommands(sub)
          /\ subs' = (subs \ {sub}) \cup {[sub EXCEPT !.running = TRUE]}
          /\ UNCHANGED swapchainSemaphore
    /\ UNCHANGED <<cpuVars, renderFence, renderSemaphore, gpuHung, peVars, downVars,
                   histVars, events>>
    /\ UNCHANGED <<imgLayout, transitionArgs>>

\* The GPU completes a batch: signal semaphore, then fence.
GpuFinish(sub) ==
    /\ Alive /\ ~gpuHung
    /\ sub \in subs /\ sub.running
    /\ sub.semWaited \/ swapchainSemaphore[sub.wait]
    /\ swapchainSemaphore' = IF sub.semWaited THEN swapchainSemaphore
                             ELSE [swapchainSemaphore EXCEPT ![sub.wait] = FALSE]
    /\ subs' = subs \ {sub}
    /\ renderSemaphore' = [renderSemaphore EXCEPT ![sub.signal] = TRUE]
    /\ renderFence' = [renderFence EXCEPT ![sub.fence] = TRUE]
    /\ commandBuffer' = [commandBuffer EXCEPT ![sub.slot] = InvalidBuffer]
    /\ imgRendered' = [imgRendered EXCEPT ![TargetImage(sub)] = TRUE]
    /\ imgLayout' = Execute(sub.cmds, imgLayout)
    /\ UNCHANGED <<pc, _isInitialized, _frameNumber, _stopRendering, loadedEngine, bQuit,
                   nextSwapchainImageIndex, waited, gpuHung, peVars, downVars, iter, used,
                   slotLog, apiCalls, pausedTick, events>>
    /\ UNCHANGED transitionArgs

\* The GPU stops making progress with work outstanding. Until the CPU thread
\* waits for the GPU a hang is not told apart from a GPU that takes no step, so
\* the hang is placed at the waits.
GpuHang ==
    /\ Alive /\ ~gpuHung
    /\ pc \in {"draw_wait", "cleanup_waitidle"}
    /\ subs # {}
    /\ gpuHung' = TRUE
    /\ UNCHANGED <<cpuVars, renderFence, swapchainSemaphore, renderSemaphore, subs, peVars,
                   downVars, histVars, events>>
    /\ UNCHANGED <<imgLayout, transitionArgs>>

\* ----------------------------------------------------- presentation engine
\* The image handed out by an acquire becomes available: its semaphore is signaled.
PeSignalAcquire(s) ==
    /\ Alive
    /\ acqPending[s] # NoImage
    /\ swapchainSemaphore' = [swapchainSemaphore EXCEPT ![s] = TRUE]
    /\ imgAvail' = [imgAvail EXCEPT ![acqPending[s]] = TRUE]
    /\ acqPending' = [acqPending EXCEPT ![s] = NoImage]
    /\ UNCHANGED <<cpuVars, renderFence, renderSemaphore, subs, gpuHung, imgState,
                   presentWait, imageCount, downVars, histVars, events>>
    /\ UNCHANGED <<imgLayout, transitionArgs>>

\* A queued present starts once its wait semaphore is signaled, consuming it.
PePresentStart(k) ==
    /\ Alive
    /\ imgState[k] = "queued"
    /\ renderSemaphore[presentWait[k]]
    /\ renderSemaphore' = [renderSemaphore EXCEPT ![presentWait[k]] = FALSE]
    /\ imgState' = [imgState EXCEPT ![k] = "presenting"]
    /\ UNCHANGED <<cpuVars, renderFence, swapchainSemaphore, subs, gpuHung, imgAvail,
                   acqPending, presentWait, imageCount, downVars, histVars, events>>
    /\ UNCHANGED <<imgLayout, transitionArgs>>

\* The presentation engine is done with an image. What the image holds is
\* undefined from here on, whatever layout it was presented in.
PeRelease(k) ==
    /\ Alive
    /\ imgState[k] = "presenting"
    /\ imgState' = [imgState EXCEPT ![k] = "free"]
    /\ imgAvail' = [imgAvail EXCEPT ![k] = FALSE]
    /\ presentWait' = [presentWait EXCEPT ![k] = NoImage]
    /\ imgRendered' = [imgRendered EXCEPT ![k] = FALSE]
    /\ imgLayout' = [imgLayout EXCEPT ![k] = "UNDEFINED"]
    /\ UNCHANGED <<cpuVars, gpuVars, acqPending, imageCount, downVars, iter, used,
                   slotLog, apiCalls, pausedTick, events>>
    /\ UNCHANGED transitionArgs

\* ------------------------------------------------------------------ clock
\* One period passes while the CPU thread is blocked in a call.
Blocked ==
    \/ pc = "draw_wait" /\ ~renderFence[Slot]
    \/ /\ pc = "draw_acquire"
       /\ \A k \in Images : imgState[k] # "free"
       /\ ~Expired(Timeout(FENCE_TIMEOUT_NS), waited)

Tick ==
    /\ Blocked
    /\ waited < MaxWait
    /\ waited' = waited + 1
    /\ UNCHANGED <<pc, _isInitialized, _frameNumber, _stopRendering, loadedEngine, bQuit,
                   nextSwapchainImageIndex, commandBuffer, gpuVars, peVars, downVars,
                   histVars, events>>
    /\ UNCHANGED <<imgLayout, transitionArgs>>

\* -------------------------------------------------------------- cleanup()
\* The destroy calls of cleanup(), in the order of the code.
PerFrameKinds == <<"commandPool", "renderFence", "swapchainSemaphore">>
DestroyFrames ==
    [i \in 1 .. (3 * NumFrames) |-> <<PerFrameKinds[((i - 1) % 3) + 1], (i - 1) \div 3>>]
DestroyImageData(count) == [i \in 1 .. count |-> <<"renderSemaphore", i - 1>>]
destroySwapchain(count) ==
    <<(<<"swapchain", 0>>)>> \o [i \in 1 .. count |-> <<"imageView", i - 1>>]
DestroySequence(count) ==
    DestroyFrames
    \o DestroyImageData(count)
    \o destroySwapchain(count)
    \o << <<"surface", 0>>, <<"device", 0>>, <<"debugMessenger", 0>>,
          <<"instance", 0>>, <<"window", 0>> >>

DestroyCount(log, r) == Cardinality({i \in 1 .. Len(log) : log[i] = r})
Resources == {DestroySequence(imageCount)[i] : i \in 1 .. Len(DestroySequence(imageCount))}

\* What cleanup() tests before tearing down.
CleanupGuard == _isInitialized

\* cleanup() is entered: from main after init() or after run() returned, or again.
CallCleanup ==
    /\ pc \in {"idle", "returned", "cleaned"}
    /\ cleanups < MaxCleanups
    /\ cleanups' = cleanups + 1
    /\ IF CleanupGuard
       THEN /\ pc' = "cleanup_waitidle"
            /\ UNCHANGED loadedEngine
       ELSE /\ loadedEngine' = FALSE
            /\ UNCHANGED pc
    /\ UNCHANGED <<_isInitialized, _frameNumber, _stopRendering, bQuit,
                   nextSwapchainImageIndex, commandBuffer, waited, gpuVars, peVars,
                   destroyLog, useAfterDestroy, histVars, events>>
    /\ UNCHANGED <<imgLayout, transitionArgs>>

\* Queue operations still outstanding: batches the GPU has not completed and
\* presents whose semaphore wait has not executed.
QueueBusy == subs # {} \/ \E k \in Images : imgState[k] = "queued"

\* vkDeviceWaitIdle: success once every queue has drained; an error may come
\* back at any time (device lost, out of memory).
vkDeviceWaitIdle(busy) ==
    (IF busy THEN {} ELSE {"VK_SUCCESS"}) \cup (ApiResults \ {"VK_SUCCESS"})

\* vkDeviceWaitIdle(_logicalDevice), line 59: the result is discarded and the
\* destroy calls follow whatever it was. On a destroyed device the call is
\* undefined: it may return or bring the process down.
CleanupWaitIdle ==
    /\ pc = "cleanup_waitidle"
    /\ IF DestroyCount(destroyLog, <<"device", 0>>) > 0
       THEN /\ useAfterDestroy' = TRUE
            /\ pc' \in {"cleanup_destroy", "crashed"}
       ELSE /\ \E r \in vkDeviceWaitIdle(QueueBusy) : pc' = "cleanup_destroy"
            /\ UNCHANGED useAfterDestroy
    /\ UNCHANGED <<_isInitialized, _frameNumber, _stopRendering, loadedEngine, bQuit,
                   nextSwapchainImageIndex, commandBuffer, waited, gpuVars, peVars,
                   destroyLog, cleanups, histVars, events>>
    /\ UNCHANGED <<imgLayout, transitionArgs>>

\* The destroy calls, then loadedEngine = nullptr.
CleanupDestroy ==
    /\ pc = "cleanup_destroy"
    /\ destroyLog' = destroyLog \o DestroySequence(imageCount)
    /\ useAfterDestroy' = (useAfterDestroy \/ destroyLog # <<>>)
    /\ loadedEngine' = FALSE
    /\ pc' = "cleaned"
    /\ UNCHANGED <<_isInitialized, _frameNumber, _stopRendering, bQuit,
                   nextSwapchainImageIndex, commandBuffer, waited, gpuVars, peVars,
                   cleanups, histVars, events>>
    /\ UNCHANGED <<imgLayout, transitionArgs>>

\* ------------------------------------------------------------------- Next
Next ==
    \/ CallInit
    \/ CallRun
    \/ PushEvent
    \/ PollEvent
    \/ RunPausedTick
    \/ RunDraw
    \/ DrawWait
    \/ DrawResetFence
    \/ DrawAcquire
    \/ DrawResetCommandBuffer
    \/ DrawBeginAndRecord
    \/ DrawEndCommandBuffer
    \/ DrawSubmit
    \/ DrawPresent
    \/ \E sub \in subs : GpuBegin(sub)
    \/ \E sub \in subs : GpuFinish(sub)
    \/ GpuHang
    \/ \E s \in Slots : PeSignalAcquire(s)
    \/ \E k \in Images : PePresentStart(k)
    \/ \E k \in Images : PeRelease(k)
    \/ Tick
    \/ CallCleanup
    \/ CleanupWaitIdle
    \/ CleanupDestroy

Spec == Init /\ [][Next]_vars

\* ------------------------------------------------- the engine left to run
\* The run loop with no event arriving (never paused, never asked to quit), a
\* GPU that does not hang and calls that do not fail, except that an acquire may
\* still run into its timeout.
NoFailure(A) == A /\ (pc' = "fatal" => used'.result = "VK_TIMEOUT")

GpuStep == \E sub \in subs : GpuBegin(sub) \/ GpuFinish(sub)
PeSignalStep == \E s \in Slots : PeSignalAcquire(s)
PePresentStep == \E k \in Images : PePresentStart(k)
PeReleaseStep == \E k \in Images : PeRelease(k)

NextLive ==
    \/ NoFailure(CallInit)
    \/ CallRun
    \/ RunDraw
    \/ NoFailure(DrawWait)
    \/ NoFailure(DrawResetFence)
    \/ NoFailure(DrawAcquire)
    \/ NoFailure(DrawResetCommandBuffer)
    \/ NoFailure(DrawBeginAndRecord)
    \/ NoFailure(DrawEndCommandBuffer)
    \/ NoFailure(DrawSubmit)
    \/ NoFailure(DrawPresent)
    \/ GpuStep
    \/ PeSignalStep
    \/ PePresentStep
    \/ PeReleaseStep
    \/ Tick

\* The CPU thread keeps running, the GPU executes what it can, the presentation
\* engine signals, presents and releases. The passing of time while a call
\* blocks is not forced.
Fairness ==
    /\ WF_vars(CallRun)
    /\ WF_vars(RunDraw)
    /\ WF_vars(NoFailure(DrawWait))
    /\ WF_vars(NoFailure(DrawResetFence))
    /\ WF_vars(NoFailure(DrawAcquire))
    /\ WF_vars(NoFailure(DrawResetCommandBuffer))
    /\ WF_vars(NoFailure(DrawBeginAndRecord))
    /\ WF_vars(NoFailure(DrawEndCommandBuffer))
    /\ WF_vars(NoFailure(DrawSubmit))
    /\ WF_vars(NoFailure(DrawPresent))
    /\ WF_vars(GpuStep)
    /\ WF_vars(PeSignalStep)
    /\ WF_vars(PePresentStep)
    /\ WF_vars(PeReleaseStep)

SpecLive == Init /\ [][NextLive]_vars /\ Fairness

\* ------------------------------------------- transitionImage on its own
\* Image layouts a caller may pass.
Layouts ==
    {"UNDEFINED", "GENERAL", "COLOR_ATTACHMENT_OPTIMAL", "DEPTH_ATTACHMENT_OPTIMAL",
     "DEPTH_STENCIL_ATTACHMENT_OPTIMAL", "TRANSFER_DST_OPTIMAL", "PRESENT_SRC_KHR"}

\* A caller holds an empty command buffer and passes any image, current layout
\* and new layout.
InitTransition ==
    /\ pc = "transition_call"
    /\ transitionArgs \in [image : 0 .. (MaxImages - 1), currentLayout : Layouts,
                           newLayout : Layouts]
    /\ InitEngine

\* transitionImage(commandBuffer, image, currentLayout, newLayout): what
\* vkCmdPipelineBarrier2 adds to the command buffer.
CallTransitionImage ==
    /\ pc = "transition_call"
    /\ pc' = "transition_done"
    /\ commandBuffer' =
          [commandBuffer EXCEPT ![0].cmds =
              Append(@, transitionImage(transitionArgs.image, transitionArgs.currentLayout,
                                        transitionArgs.newLayout))]
    /\ UNCHANGED <<_isInitialized, _frameNumber, _stopRendering, loadedEngine, bQuit,
                   nextSwapchainImageIndex, waited, gpuVars, peVars, downVars, histVars,
                   events, imgLayout, transitionArgs>>

NextTransition == CallTransitionImage

SpecTransition == InitTransition /\ [][NextTransition]_vars

TypeOK ==
    /\ pc \in {"constructed", "idle", "poll", "draw_wait", "draw_reset", "draw_acquire",
               "draw_resetcmd", "draw_begin", "draw_end", "draw_submit", "draw_present",
               "returned", "fatal", "crashed", "cleanup_waitidle", "cleanup_destroy",
               "cleaned"}
    /\ _frameNumber \in 0 .. MaxFrames
    /\ imageCount \in 0 .. MaxImages
    /\ Cardinality(subs) <= MaxFrames

\* ================================================================ claims

DrawAfterWait == {"draw_reset", "draw_acquire", "draw_resetcmd", "draw_begin",
                  "draw_end", "draw_submit"}
DrawAfterReset == DrawAfterWait \ {"draw_reset"}

\* C1: the i-th draw() (i = 0, 1, ...) uses slot i mod N in every step (fence
\* wait, fence reset, acquire semaphore, command buffer, submit wait semaphore,
\* submit fence), so the slots cycle 0, 1, ..., N-1, 0, ... whatever images the
\* presentation engine returns.
C1_SlotCycle ==
    /\ \A j \in 1 .. Len(slotLog) : slotLog[j] = (j - 1) % NumFrames
    /\ \A f \in {used.wait, used.reset, used.acquire, used.cmd, used.submitWait,
                 used.submitFence} :
          f = NoSlot \/ f = (iter - 1) % NumFrames
    /\ \A sub \in subs :
          /\ sub.slot = sub.frame % NumFrames
          /\ sub.wait = sub.slot
          /\ sub.fence = sub.slot

\* 3N draws have cycled through the slots and the latest one was handed an
\* image whose index differs from its slot.
C1_Witness ==
    /\ Len(slotLog) = 3 * NumFrames
    /\ used.submitFence # NoSlot
    /\ nextSwapchainImageIndex # NoImage
    /\ nextSwapchainImageIndex # used.submitFence

\* C2: the number of in-flight frames (submitted, GPU work not yet complete)
\* never exceeds N, and the CPU reaches a submit only with fewer than N in flight.
C2_InFlightBound ==
    /\ Cardinality(subs) <= NumFrames
    /\ pc = "draw_submit" => Cardinality(subs) < NumFrames

\* N frames are in flight and the CPU is held in the wait for the slot.
C2_Witness ==
    /\ Cardinality(subs) = NumFrames
    /\ pc = "draw_wait"
    /\ ~renderFence[Slot]

\* C3: from the return of the fence wait up to the submit, no submission that
\* used the current slot is still pending; the fence is signaled when it is
\* reset, and has been reset before the command buffer is touched.
C3_NoReuseWhilePending ==
    /\ pc \in DrawAfterWait =>
          /\ \A sub \in subs : sub.slot # Slot /\ sub.fence # Slot
          /\ commandBuffer[Slot].state # "pending"
    /\ pc = "draw_reset" => renderFence[Slot]
    /\ pc \in DrawAfterReset => ~renderFence[Slot]

\* A slot is being re-recorded at its second use while the other slot's
\* submission is still pending.
C3_Witness ==
    /\ iter > NumFrames
    /\ pc = "draw_begin"
    /\ subs # {}

\* C4: the semaphore a submission signals and the semaphore the present waits
\* on are both the registry entry at the acquired image index k.
C4_RegistryKeyedByImage ==
    /\ \A sub \in subs :
          /\ sub.signal = TargetImage(sub)
          /\ (pc = "draw_present" /\ sub.frame = _frameNumber)
                => sub.signal = nextSwapchainImageIndex
    /\ \A k \in Images : imgState[k] = "queued" => presentWait[k] = k

\* With an image count other than N, a submission signals, and a present waits
\* on, an entry whose index is not the slot index.
C4_Witness ==
    /\ imageCount # NumFrames
    /\ \E sub \in subs : sub.signal # sub.slot
    /\ \E k \in Images :
          /\ imgState[k] = "queued"
          /\ presentWait[k] = k
          /\ k >= NumFrames

\* C5: an image is being presented only when the rendering submitted for it in
\* the same iteration has completed.
C5_PresentAfterRender ==
    \A k \in Images : imgState[k] = "presenting" => imgRendered[k]

\* An image is being presented while a later frame is still on the GPU.
C5_Witness ==
    /\ \E k \in Images : imgState[k] = "presenting"
    /\ \E sub \in subs : sub.running

\* C6: the GPU executes a submission only after the presentation engine has
\* signaled that the image acquired in that iteration is available; the
\* submission waits on the semaphore of the slot given to that acquire.
C6_RenderAfterAcquire ==
    /\ \A sub \in subs :
          /\ sub.running => imgAvail[TargetImage(sub)]
          /\ sub.wait = sub.slot
    /\ used.submitWait \in {NoSlot, used.acquire}

\* A submission is executing while another waits for its acquire semaphore.
C6_Witness ==
    /\ \E sub \in subs : sub.running
    /\ \E sub \in subs : ~sub.running /\ ~swapchainSemaphore[sub.wait]

\* C7: while the paused flag is set no call of draw() is issued and the frame
\* counter does not move; the paused tick itself leaves the frame counter,
\* every fence, semaphore and command buffer, the submissions and the
\* swapchain images as they were; and every draw() uses the frame index equal
\* to the number of draws before it, pause or no pause.
C7_PausedTickInert ==
    [][ /\ _stopRendering =>
              /\ apiCalls' = apiCalls
              /\ _frameNumber' = _frameNumber
              /\ iter' = iter
        /\ (~pausedTick /\ pausedTick') =>
              UNCHANGED <<_frameNumber, apiCalls, commandBuffer, renderFence,
                          swapchainSemaphore, renderSemaphore, subs, imgState,
                          acqPending, presentWait>>
        /\ used'.frame \in {0 - 1, iter' - 1}
      ]_vars

\* A draw() that follows a paused tick, with earlier draws before the pause,
\* has reached its present.
C7_Witness ==
    /\ used.afterPause
    /\ used.frame > 0
    /\ used.frame = _frameNumber
    /\ pc = "draw_present"

\* The windowing events of the claim, as SDL delivers them.
IsSurfaceMinimized(e) ==
    e.type = SDL_WINDOWEVENT /\ e.windowEvent = SDL_WINDOWEVENT_MINIMIZED
IsSurfaceRestored(e) ==
    e.type = SDL_WINDOWEVENT /\ e.windowEvent = SDL_WINDOWEVENT_RESTORED

\* The events the windowing event source produces itself.
DeliveredByWindowing(e) == e.type \in {SDL_QUIT, SDL_WINDOWEVENT}

\* C8: of the events the windowing event source delivers, handling a
\* surface-minimized event sets the paused flag, handling a surface-restored
\* event clears it, and handling any other leaves the flag as it was.
C8_MinimizeRestoreToggle ==
    [][ ( /\ pc = "poll" /\ events # <<>> /\ events' = Tail(events)
          /\ DeliveredByWindowing(Head(events)) ) =>
            _stopRendering' = IF IsSurfaceMinimized(Head(events)) THEN TRUE
                              ELSE IF IsSurfaceRestored(Head(events)) THEN FALSE
                              ELSE _stopRendering
      ]_vars

\* C9: with a hung GPU and the slot's fence unsignaled, the wait for the slot
\* does not last beyond the configured timeout.
C9_FenceWaitBounded ==
    (pc = "draw_wait" /\ gpuHung /\ ~renderFence[Slot])
        => ~Expired(Timeout(FENCE_TIMEOUT_NS), waited - 1)

\* C10: over init, cleanup, cleanup every resource is destroyed at most once
\* and no destroyed resource is used.
C10_CleanupIdempotent ==
    /\ \A r \in Resources : DestroyCount(destroyLog, r) <= 1
    /\ ~useAfterDestroy

\* ---- C11 ----
\* Object kinds created from the logical device.
DeviceChildKinds ==
    {"commandPool", "renderFence", "swapchainSemaphore", "renderSemaphore",
     "swapchain", "imageView"}

\* C11: when the first cleanup() starts destroying, no submitted batch and no
\* queued present is outstanding, and the device comes after every object
\* created from it in the destroy order.
C11_DestroyAfterIdle ==
    /\ (pc = "cleanup_destroy" /\ cleanups = 1) => ~QueueBusy
    /\ \A i, j \in 1 .. Len(DestroySequence(imageCount)) :
          (/\ DestroySequence(imageCount)[i][1] = "device"
           /\ DestroySequence(imageCount)[j][1] \in DeviceChildKinds) => j < i

\* ---- C12 ----
\* C12: a call of draw() that returns anything but VK_SUCCESS puts the engine
\* in the fatal state with the frame counter where it was, and no step is ever
\* taken from the fatal state: no later call, no further iteration.
C12_FailureIsFatal ==
    [][/\ pc # "fatal"
       /\ (used'.result # "VK_SUCCESS") =>
             (/\ pc' = "fatal"
              /\ _frameNumber' = _frameNumber
              /\ iter' = iter
              /\ apiCalls' = apiCalls + 1)]_vars

C12_Witness ==
    /\ pc = "fatal"
    /\ used.result = "VK_ERROR_DEVICE_LOST"
    /\ used.submitFence # NoSlot
    /\ iter >= 2

\* ---- C13 ----
\* C13: when draw() is about to submit, it has waited for and then reset the
\* slot's fence in this iteration, the fence is unsignaled and no pending
\* batch names it; a fence named by a pending batch is unsignaled.
C13_FenceResetBeforeSubmit ==
    /\ pc = "draw_submit" =>
          /\ used.wait = Slot /\ used.reset = Slot
          /\ ~renderFence[Slot]
          /\ \A sub \in subs : sub.fence # Slot
    /\ \A sub \in subs : ~renderFence[sub.fence]

C13_Witness ==
    /\ pc = "draw_submit"
    /\ iter > NumFrames
    /\ subs # {}

\* ---- C14 ----
\* C14: when init() has returned every slot's fence is signaled, every slot's
\* acquire semaphore and every image's render semaphore is unsignaled and
\* nothing is submitted; and in each of the first N draws the fence wait finds
\* the slot's fence signaled although the slot was never used before.
C14_InitialSyncState ==
    /\ pc = "idle" =>
          /\ \A s \in Slots : renderFence[s] /\ ~swapchainSemaphore[s]
          /\ \A k \in Images : ~renderSemaphore[k]
          /\ DOMAIN renderSemaphore = 0 .. (imageCount - 1)
          /\ subs = {}
    /\ (pc = "draw_wait" /\ iter <= NumFrames) =>
          /\ \A i \in 1 .. Len(slotLog) : slotLog[i] # Slot
          /\ \A sub \in subs : sub.slot # Slot
          /\ renderFence[Slot]
          /\ vkWaitForFences(renderFence[Slot], UINT64_MAX, waited) = "VK_SUCCESS"

C14_Witness ==
    /\ pc = "draw_wait"
    /\ iter = NumFrames
    /\ subs # {}
    /\ imageCount = MaxImages

\* ---- C15 ----
\* The command sequence the claim names, for image k.
IsFrameRecording(cmds, k) ==
    /\ Len(cmds) = 3
    /\ \A i \in 1 .. 3 : cmds[i].image = k
    /\ cmds[1].op = "barrier"
    /\ cmds[1].oldLayout = "UNDEFINED" /\ cmds[1].newLayout = "GENERAL"
    /\ cmds[2].op = "clear" /\ cmds[2].oldLayout = "GENERAL"
    /\ cmds[3].op = "barrier"
    /\ cmds[3].oldLayout = "GENERAL" /\ cmds[3].newLayout = "PRESENT_SRC_KHR"

\* C15: the buffer draw() submits was reset, begun as one-time-submit, recorded
\* with transition UNDEFINED->GENERAL, clear, transition GENERAL->PRESENT_SRC on
\* the image acquired in this iteration, and ended; every pending batch holds
\* exactly that sequence for its image; and an image handed to present whose
\* rendering has completed is in the presentable layout.
C15_RecordedEachFrame ==
    /\ pc = "draw_submit" =>
          /\ used.cmd = Slot
          /\ commandBuffer[Slot].state = "executable"
          /\ commandBuffer[Slot].usage = "ONE_TIME_SUBMIT"
          /\ IsFrameRecording(commandBuffer[Slot].cmds, nextSwapchainImageIndex)
    /\ \A sub \in subs : IsFrameRecording(sub.cmds, sub.signal)
    /\ \A k \in Images :
          (imgState[k] \in {"queued", "presenting"} /\ imgRendered[k]) =>
              imgLayout[k] = "PRESENT_SRC_KHR"

C15_Witness ==
    /\ imageCount = MaxImages
    /\ \E k \in Images :
          /\ imgState[k] = "presenting"
          /\ imgLayout[k] = "PRESENT_SRC_KHR"
          /\ k > NumFrames - 1
    /\ pc = "draw_submit"
    /\ iter > NumFrames

\* ---- C16 ----
\* C16: a call of transitionImage adds exactly one image barrier to the command
\* buffer, on the image given, from the current layout given to the new layout
\* given, with the depth aspect when the new layout is
\* DEPTH_ATTACHMENT_OPTIMAL and the color aspect for every other new layout,
\* whatever the current layout.
C16_TransitionBarrier ==
    pc = "transition_done" =>
        LET cmds == commandBuffer[0].cmds IN
        /\ Len(cmds) = 1
        /\ cmds[1].op = "barrier"
        /\ cmds[1].image = transitionArgs.image
        /\ cmds[1].oldLayout = transitionArgs.currentLayout
        /\ cmds[1].newLayout = transitionArgs.newLayout
        /\ cmds[1].aspectMask =
              (IF transitionArgs.newLayout = "DEPTH_ATTACHMENT_OPTIMAL"
               THEN "DEPTH" ELSE "COLOR")

C16_Witness ==
    /\ pc = "transition_done"
    /\ transitionArgs.currentLayout = "DEPTH_ATTACHMENT_OPTIMAL"
    /\ transitionArgs.newLayout = "PRESENT_SRC_KHR"
    /\ commandBuffer[0].cmds[1].aspectMask = "COLOR"

\* ---- C18 ----
\* C18: from the acquire of image k to the submit that signals its render
\* semaphore, that semaphore is unsignaled, no pending batch is going to signal
\* it and no queued present is waiting on it.
C18_RenderSemaphoreFree ==
    pc \in {"draw_resetcmd", "draw_begin", "draw_end", "draw_submit"} =>
        LET sig == SubmitInfo(_frameNumber, nextSwapchainImageIndex, imageCount,
                              commandBuffer[Slot]).signal IN
        /\ ~renderSemaphore[sig]
        /\ \A sub \in subs : sub.signal # sig
        /\ \A k \in Images : imgState[k] = "queued" => presentWait[k] # sig

\* The only image is acquired for the third time.
C18_Witness ==
    /\ pc = "draw_submit"
    /\ imageCount = 1
    /\ iter = NumFrames + 1

\* ---- C19 ----
\* C19: when draw() is about to pass the slot's acquire semaphore to
\* vkAcquireNextImageKHR, the semaphore is unsignaled, no earlier acquire is
\* still going to signal it and no pending batch waits on it.
C19_AcquireSemaphoreFree ==
    pc = "draw_acquire" =>
        /\ ~swapchainSemaphore[Slot]
        /\ acqPending[Slot] = NoImage
        /\ \A sub \in subs : sub.wait # Slot

C19_Witness ==
    /\ pc = "draw_acquire"
    /\ iter > NumFrames
    /\ subs # {}
    /\ imageCount = MaxImages

\* ---- C20 ----
\* C20: no loop tick starts after a draw() entered with bQuit set, and when
\* run() has returned bQuit is set and the tick that saw it drew once if the
\* engine was not paused and not at all if it was.
C20_QuitEndsRun ==
    /\ pc = "poll" => ~used.afterQuit
    /\ pc = "returned" =>
          /\ bQuit
          /\ used.afterQuit <=> ~_stopRendering

\* run() has returned from a paused tick after at least one draw.
C20_Witness ==
    /\ pc = "returned"
    /\ _stopRendering
    /\ iter >= 1

\* ---- C17 ----
DrawPcs == {"draw_wait", "draw_reset", "draw_acquire", "draw_resetcmd", "draw_begin",
            "draw_end", "draw_submit", "draw_present"}

====
